---- MODULE Spec2Model ----
(***************************************************************************)
(* Model of the MAVLink transport of GazeboMavlinkInterface               *)
(* (src/src/gazebo_mavlink_interface.cpp, include/gazebo_mavlink_         *)
(* interface.h): the serial transmit queue with its asynchronous write    *)
(* chain, the serial/UDP router, and the serial inbound dispatch.         *)
(*                                                                         *)
(* Threads: the simulation tick and the sensor callbacks call              *)
(* send_mavlink_message; one I/O thread runs io_service.run() and          *)
(* executes, one at a time, the posted do_write(true) handlers, the        *)
(* write-completion handlers and parse_buffer.                             *)
(***************************************************************************)
EXTENDS Integers, Sequences, FiniteSets, TLC

\* ---------------------------------------------------------------- bounds
\* Frames a sensor callback may send in one run of the transport model.
MaxSends == 3
\* Longest payload, in bytes, of a frame a sensor callback sends.
MaxPayload == 1
\* Datagrams the UDP socket may deliver in one run.
MaxPolls == 1
\* Completed reads of the serial device in one run.
MaxReads == 2
\* IMU callbacks.
MaxImu == 3
\* Simulation time, in milliseconds.
MaxTime == 12
\* Optical-flow samples.
MaxFlow == 2
\* GPS callbacks.
MaxGps == 2
\* Frames sent before a shutdown.
MaxShutdownSends == 1

\* ------------------------------------------------------ program constants
MAX_TXQ_SIZE == 1000
kDefaultMavlinkUdpPort == 14560
kDefaultQGCUdpPort == 14550
n_out_max == 16
\* From the MAVLink headers the source includes.
MAVLINK_STX == 253
MAVLINK_MSG_ID_HEARTBEAT == 0
MAVLINK_MSG_ID_HIL_ACTUATOR_CONTROLS == 93
MAV_MODE_FLAG_SAFETY_ARMED == 128
X25_INIT_CRC == 65535
MAVLINK_MSG_ID_HIL_SENSOR == 107
MAVLINK_MSG_ID_HIL_GPS == 113
MAVLINK_MSG_ID_HIL_STATE_QUATERNION == 115
MAVLINK_MSG_ID_HIL_OPTICAL_FLOW == 114
\* double imu_update_interval_ = 0.004, in milliseconds.
kDefaultImuUpdateInterval == 4

VARIABLES
  loaded,            \* Load() has run
  serial_enabled_,   \* bool serial_enabled_
  dev_open,          \* serial_dev.is_open()
  tx_q,              \* std::deque<MsgBuffer> tx_q, head first
  tx_in_progress,    \* std::atomic<bool> tx_in_progress
  posted,            \* do_write(true) handlers waiting in the io_service
  writes,            \* async_write_some operations outstanding on serial_dev
  wire,              \* bytes the serial device has taken, in order (history)
  nsent,             \* calls of send_mavlink_message so far (history)
  accepted,          \* frames appended to tx_q, in order (history)
  serial_errors,     \* "Serial error" lines logged by the completion handler
  qgc_udp_port_,     \* int qgc_udp_port_
  mavlink_udp_port_, \* int mavlink_udp_port_
  fd,                \* int _fd: "none", or a socket "unbound" or "bound"
  srcaddr,           \* struct sockaddr_in _srcaddr
  udp_log,           \* sendto() calls made, in order (history)
  calls,             \* destination_port of each send call (history)
  m_status,          \* mavlink_status_t m_status (serial decoder)
  m_buffer,          \* mavlink_message_t m_buffer (serial decoder)
  comm0,             \* status and buffer of channel MAVLINK_COMM_0
  rx_log,            \* frames the serial decoder completed (history)
  poll_log,          \* frames mavlink_parse_char returned (history)
  read_log,          \* serial reads completed, with their bytes (history)
  handled,           \* messages passed to handle_message (history)
  input_reference_,  \* Eigen::VectorXd input_reference_
  received_first_referenc_,
  last_actuator_time_,
  sim_time,          \* world_->GetSimTime()
  last_time_,        \* common::Time last_time_
  motor_cmd,         \* last CommandMotorSpeed published, <<>> if none
  input_offset_, input_scaling_, zero_position_disarmed_,
  zero_position_armed_,
  npolls,            \* datagrams received so far
  nreads,            \* serial reads completed so far
  imu_update_interval_,  \* double imu_update_interval_, in milliseconds
  hil_mode_, hil_state_level_,
  sdf,               \* the settings Load was given (history)
  last_imu_time_,    \* common::Time last_imu_time_
  imu_log,           \* IMU callbacks run, with what each sent (history)
  optflow_gyro,      \* math::Vector3 optflow_gyro, one axis of it
  last_dt_us,        \* static uint32_t last_dt_us of ImuCallback
  gyro_log,          \* accumulations since the last flow sample (history)
  flow_log,          \* optical-flow samples sent (history)
  gps_log,           \* GPS callbacks run, with what each sent (history)
  mutex,             \* std::recursive_mutex mutex: "free" or its owner
  sim_pc,            \* where the simulator's thread is inside a call
  sim_msg,           \* the message of the send call it is inside
  io_pc,             \* where io_thread is: "none" before it is started
  io_arg,            \* locals of the handler io_thread is inside
  io_stopped,        \* io_service.stop() has been called
  closing,           \* close(): "no", "called", "returned"
  stale_use          \* reads and writes a handler started on serial_dev
                     \* while it was not open

txvars == <<tx_q, tx_in_progress, posted, writes, wire, accepted,
            serial_errors>>
cfgvars == <<loaded, serial_enabled_, dev_open, qgc_udp_port_,
             mavlink_udp_port_, fd, input_offset_, input_scaling_,
             zero_position_disarmed_, zero_position_armed_,
             imu_update_interval_, hil_mode_, hil_state_level_, sdf>>
rxvars == <<m_status, m_buffer, comm0, rx_log, poll_log, handled,
            input_reference_,
            received_first_referenc_, last_actuator_time_, srcaddr, udp_log,
            calls>>
flowvars == <<optflow_gyro, last_dt_us, gyro_log, flow_log, gps_log>>
tickvars == <<sim_time, last_time_, motor_cmd, npolls, nreads, read_log,
              last_imu_time_, imu_log, flowvars>>
threadvars == <<mutex, sim_pc, sim_msg, io_pc, io_arg, io_stopped, closing,
                stale_use>>
vars == <<cfgvars, txvars, nsent, rxvars, tickvars, threadvars>>

Channels == 0..(n_out_max - 1)
ZeroArray == [i \in Channels |-> 0]

\* ------------------------------------------------------------- endpoints
\* UDP ports of the model: the two defaults of the header.
Ports == {kDefaultQGCUdpPort, kDefaultMavlinkUdpPort}
\* An endpoint is an address and a port. Addresses: "qgc_addr" and
\* "mavlink_addr" for the configured qgc_addr_ and mavlink_addr_, and
\* "other_addr" for a host that is neither.
Endpoint(a, p) == [addr |-> a, port |-> p]
\* What _srcaddr may hold before Load has written it (it has no
\* initialiser).
UnsetEndpoints == {Endpoint("other_addr", p) : p \in Ports}
\* The ground-station peer Load configures when serial is enabled.
GcsPeer == Endpoint("qgc_addr", qgc_udp_port_)
\* Hosts a datagram may come from: the ground station on its default
\* port, and another host.
Senders == {Endpoint("qgc_addr", kDefaultQGCUdpPort),
            Endpoint("other_addr", kDefaultMavlinkUdpPort)}

\* ------------------------------------------------------------- MsgBuffer
\* A message is [msgid, payload]. Its frame on the wire is STX, LEN, MSGID,
\* the payload, and the two checksum bytes (the other header fields of
\* MAVLink 2 and the optional signature are left out).
NonPayloadLen == 5
PacketLen(msg) == NonPayloadLen + Len(msg.payload)

\* MsgBuffer(msg): the encoded frame with its write cursor at 0. seq is the
\* number of the send call that made it; it tells equal frames apart.
MsgBuffer(seq, msg) == [seq |-> seq, len |-> PacketLen(msg), pos |-> 0]

\* MsgBuffer::nbytes(): bytes not yet written.
nbytes(b) == b.len - b.pos

\* The bytes [from+1 .. from+n] of frame seq, as the device sees them.
FrameBytes(seq, from, n) == [k \in 1..n |-> <<seq, from + k>>]

\* Messages the sensor callbacks build (never an actuator-control frame).
PayloadsUpTo(n) == UNION {[1..k -> {0}] : k \in 0..n}
SensorMsgs == [msgid : {MAVLINK_MSG_ID_HEARTBEAT},
               payload : PayloadsUpTo(MaxPayload)]

\* ----------------------------------------------------- MAVLink framing
\* The checksum of the MAVLink library, kept to 16 bits: crc_accumulate
\* folds one byte into it. (The model's fold is not the X.25 polynomial;
\* what the decoder's logic needs is that sender and receiver accumulate
\* the same bytes and compare two checksum bytes.)
crc_accumulate(c, crc) == (crc * 33 + c + 1) % 65536

RECURSIVE crc_calculate(_, _)
crc_calculate(bytes, crc) ==
  IF bytes = <<>> THEN crc
  ELSE crc_calculate(Tail(bytes), crc_accumulate(Head(bytes), crc))

\* The checksum covers LEN, MSGID and the payload.
FrameChecksum(msg) ==
  crc_calculate(<<Len(msg.payload), msg.msgid>> \o msg.payload, X25_INIT_CRC)

\* mavlink_msg_to_send_buffer: the frame of msg, byte by byte.
Encode(msg) ==
  <<MAVLINK_STX, Len(msg.payload), msg.msgid>> \o msg.payload
    \o <<FrameChecksum(msg) % 256, FrameChecksum(msg) \div 256>>

\* The frame of msg with its second checksum byte replaced by ck_b.
EncodeWithCk(msg, ck_b) ==
  <<MAVLINK_STX, Len(msg.payload), msg.msgid>> \o msg.payload
    \o <<FrameChecksum(msg) % 256, ck_b>>

\* Decoder state as `m_status {}` / `m_buffer {}` leave it.
IdleStatus == [parse_state |-> "IDLE", packet_idx |-> 0,
               msg_received |-> "incomplete"]
EmptyBuffer == [len |-> 0, msgid |-> 0, payload |-> <<>>,
                checksum |-> 0]

\* mavlink_start_checksum(msg).
mavlink_start_checksum(rxmsg) == [rxmsg EXCEPT !.checksum = X25_INIT_CRC]

\* mavlink_frame_char_buffer(rxmsg, status, c, r_message, r_status): one
\* byte through the frame state machine. Returns the new rxmsg and status,
\* the framing result and, when a frame ended (ok or bad_crc), the message
\* copied to r_message. No signing is configured (m_status is
\* zero-initialised), so bad_signature is never returned.
mavlink_frame_char_buffer(rxmsg, status, c) ==
  LET st == [status EXCEPT !.msg_received = "incomplete"]
      out(b, s, res, msg) ==
        [rxmsg |-> b, status |-> s, res |-> res, message |-> msg]
      none == [msgid |-> 0, payload |-> <<>>]
  IN CASE st.parse_state = "IDLE" ->
            IF c = MAVLINK_STX
            THEN out(mavlink_start_checksum(
                       [rxmsg EXCEPT !.len = 0, !.payload = <<>>,
                                     !.msgid = 0]),
                     [st EXCEPT !.parse_state = "GOT_STX"],
                     "incomplete", none)
            ELSE out(rxmsg, st, "incomplete", none)
       [] st.parse_state = "GOT_STX" ->
            out([rxmsg EXCEPT !.len = c, !.payload = <<>>,
                              !.checksum = crc_accumulate(c, @)],
                [st EXCEPT !.parse_state = "GOT_LENGTH", !.packet_idx = 0],
                "incomplete", none)
       [] st.parse_state = "GOT_LENGTH" ->
            out([rxmsg EXCEPT !.msgid = c,
                              !.checksum = crc_accumulate(c, @)],
                [st EXCEPT !.parse_state =
                             IF rxmsg.len = 0 THEN "GOT_PAYLOAD"
                             ELSE "GOT_MSGID"],
                "incomplete", none)
       [] st.parse_state = "GOT_MSGID" ->
            out([rxmsg EXCEPT !.payload = Append(@, c),
                              !.checksum = crc_accumulate(c, @)],
                [st EXCEPT !.packet_idx = @ + 1,
                           !.parse_state =
                             IF st.packet_idx + 1 = rxmsg.len
                             THEN "GOT_PAYLOAD" ELSE "GOT_MSGID"],
                "incomplete", none)
       [] st.parse_state = "GOT_PAYLOAD" ->
            out(rxmsg,
                [st EXCEPT !.parse_state =
                             IF c # rxmsg.checksum % 256
                             THEN "GOT_BAD_CRC1" ELSE "GOT_CRC1"],
                "incomplete", none)
       [] st.parse_state \in {"GOT_CRC1", "GOT_BAD_CRC1"} ->
            LET res == IF st.parse_state = "GOT_BAD_CRC1"
                          \/ c # rxmsg.checksum \div 256
                       THEN "bad_crc" ELSE "ok"
            IN out(rxmsg,
                   [st EXCEPT !.parse_state = "IDLE", !.msg_received = res],
                   res,
                   [msgid |-> rxmsg.msgid, payload |-> rxmsg.payload])

resync_idle(r, c) ==
  IF r.res \in {"bad_crc", "bad_signature"}
  THEN [r EXCEPT !.status.msg_received = "incomplete",
                 !.status.parse_state = "IDLE"]
  ELSE r

\* What parse_buffer and mavlink_parse_char do after a bad_crc or
\* bad_signature result for byte c: back to idle, or straight to GOT_STX
\* with a fresh checksum when c is the start marker.
resync(r, c) ==
  IF r.res \in {"bad_crc", "bad_signature"}
  THEN IF c = MAVLINK_STX
       THEN [r EXCEPT !.status.msg_received = "incomplete",
                      !.status.parse_state = "GOT_STX",
                      !.rxmsg = mavlink_start_checksum(
                                  [r.rxmsg EXCEPT !.len = 0])]
       ELSE [r EXCEPT !.status.msg_received = "incomplete",
                      !.status.parse_state = "IDLE"]
  ELSE r

\* mavlink_parse_char of the MAVLink library, over bytes, on a channel in
\* state ch: the messages it returns, in order, appended to out.
RECURSIVE mavlink_parse_char(_, _, _)
mavlink_parse_char(bytes, ch, out) ==
  IF bytes = <<>> THEN out
  ELSE LET c == Head(bytes)
           r0 == mavlink_frame_char_buffer(ch.buffer, ch.status, c)
           r == resync(r0, c)
           next == [status |-> r.status, buffer |-> r.rxmsg]
       IN IF r0.res = "ok"
          THEN mavlink_parse_char(Tail(bytes), next, Append(out, r0.message))
          ELSE mavlink_parse_char(Tail(bytes), next, out)

\* mavlink_msg_hil_actuator_controls_decode: mode and the 16 controls of
\* the payload, absent trailing bytes reading as zero (MAVLink 2 payload
\* truncation). The model's payload holds the mode byte first, then one
\* byte per control.
hil_actuator_controls_decode(msg) ==
  LET at(k) == IF k <= Len(msg.payload) THEN msg.payload[k] ELSE 0
  IN [mode |-> at(1), controls |-> [i \in Channels |-> at(i + 2)]]

\* ------------------------------------------------------------------ Init
\* The settings before Load: no element present.
NoSdf == [serialEnabled |-> FALSE, openOk |-> FALSE, udp |-> "ok",
          qgc_udp_port |-> 0, channels |-> {}, imu_rate |-> 0,
          hil_mode |-> FALSE, hil_state_level |-> "absent"]
\* A function-local static before the first pass over its declaration.
StaticUnset == -1
\* Placeholders for "no message" and "no handler locals".
NoMessage == [msgid |-> 0, payload |-> <<>>]
NoArg == [at |-> "none"]

\* The object as the constructor leaves it: tx_q empty, serial disabled;
\* tx_in_progress has no initialiser, so its first value is indeterminate.
Init ==
  /\ loaded = FALSE
  /\ serial_enabled_ = FALSE
  /\ dev_open = FALSE
  /\ tx_q = <<>>
  /\ tx_in_progress \in BOOLEAN
  /\ posted = 0
  /\ writes = <<>>
  /\ wire = <<>>
  /\ nsent = 0
  /\ accepted = <<>>
  /\ serial_errors = 0
  /\ qgc_udp_port_ = kDefaultMavlinkUdpPort
  /\ mavlink_udp_port_ = kDefaultMavlinkUdpPort
  /\ fd = "none"
  /\ srcaddr \in UnsetEndpoints
  /\ udp_log = <<>>
  /\ calls = <<>>
  /\ m_status = IdleStatus
  /\ m_buffer = EmptyBuffer
  /\ comm0 = [status |-> IdleStatus, buffer |-> EmptyBuffer]
  /\ rx_log = <<>>
  /\ poll_log = <<>>
  /\ read_log = <<>>
  /\ handled = <<>>
  /\ input_reference_ = <<>>
  /\ received_first_referenc_ = FALSE
  /\ last_actuator_time_ = 0
  /\ sim_time = 0
  /\ last_time_ = 0
  /\ motor_cmd = <<>>
  /\ input_offset_ = ZeroArray
  /\ input_scaling_ = ZeroArray
  /\ zero_position_disarmed_ = ZeroArray
  /\ zero_position_armed_ = ZeroArray
  /\ npolls = 0
  /\ nreads = 0
  /\ imu_update_interval_ = kDefaultImuUpdateInterval
  /\ hil_mode_ = FALSE
  /\ hil_state_level_ = FALSE
  /\ sdf = NoSdf
  /\ last_imu_time_ = 0
  /\ imu_log = <<>>
  /\ optflow_gyro = 0
  /\ last_dt_us = StaticUnset
  /\ gyro_log = <<>>
  /\ flow_log = <<>>
  /\ gps_log = <<>>
  /\ mutex = "free"
  /\ sim_pc = "idle"
  /\ sim_msg = NoMessage
  /\ io_pc = "none"
  /\ io_arg = NoArg
  /\ io_stopped = FALSE
  /\ closing = "no"
  /\ stale_use = 0

\* ------------------------------------------------------------------ Load
\* <channel> elements of control_channels: one with every field set, and
\* one with offset 0, scaling 1 and armed zero position 0.
ChannelA == [input_index |-> 0, input_offset |-> 1, input_scaling |-> 2,
             zero_position_disarmed |-> 3, zero_position_armed |-> 4]
ChannelB == [input_index |-> 1, input_offset |-> 0, input_scaling |-> 1,
             zero_position_disarmed |-> 5, zero_position_armed |-> 0]

\* The settings Load reads from the SDF element and what the platform
\* answers: serialEnabled; whether open() succeeds; how the UDP setup ends
\* ("ok", "invalid_addr": mavlink_addr does not parse and Load returns
\* before reading the ports, "bind_failed": bind() fails after _srcaddr is
\* set); qgc_udp_port when the element is present (0: absent); the
\* channels of control_channels; imu_rate when the element is present (0:
\* absent); the value of the hil_mode element; the hil_state_level
\* element ("absent", "true" or "false").
Configs == [serialEnabled : BOOLEAN, openOk : BOOLEAN,
            udp : {"ok", "invalid_addr", "bind_failed"},
            qgc_udp_port : {0, kDefaultQGCUdpPort},
            channels : {{}, {ChannelA}, {ChannelA, ChannelB}},
            imu_rate : {0, 1, 250},
            hil_mode : BOOLEAN,
            hil_state_level : {"absent", "true", "false"}]

\* A configuration without the imu_rate, hil_mode and hil_state_level
\* elements.
NoImuSettings(c) ==
  c.imu_rate = 0 /\ ~c.hil_mode /\ c.hil_state_level = "absent"

\* The value Load leaves in array cur for channel i.
ChannelValue(cfg, field, cur, i) ==
  IF \E ch \in cfg.channels : ch.input_index = i /\ i < n_out_max
  THEN (CHOOSE ch \in cfg.channels : ch.input_index = i)[field]
  ELSE cur[i]

\* Load(): sizes input_reference_ to n_out_max zeros and reads the
\* channels; sets last_time_ and last_imu_time_; imu_rate, when present,
\* sets imu_update_interval_ to the integer quotient 1 / imu_rate seconds;
\* hil_mode_ and hil_state_level_ are both read only when the
\* hil_state_level element is present; with serial enabled, posts
\* do_read, starts the I/O thread and calls open(), whose failure is only
\* logged; then sets up the UDP socket and _srcaddr, returning early when
\* that setup fails. sdf keeps the settings given.
Load(cfg) ==
  /\ ~loaded
  /\ loaded' = TRUE
  /\ sdf' = cfg
  /\ input_reference_' = ZeroArray
  /\ input_offset_' =
       [i \in Channels |-> ChannelValue(cfg, "input_offset", input_offset_, i)]
  /\ input_scaling_' =
       [i \in Channels |->
          ChannelValue(cfg, "input_scaling", input_scaling_, i)]
  /\ zero_position_disarmed_' =
       [i \in Channels |->
          ChannelValue(cfg, "zero_position_disarmed",
                       zero_position_disarmed_, i)]
  /\ zero_position_armed_' =
       [i \in Channels |->
          ChannelValue(cfg, "zero_position_armed", zero_position_armed_, i)]
  /\ last_time_' = sim_time
  /\ last_imu_time_' = sim_time
  /\ imu_update_interval_' =
       IF cfg.imu_rate # 0 THEN (1 \div cfg.imu_rate) * 1000
       ELSE imu_update_interval_
  /\ hil_mode_' = IF cfg.hil_state_level # "absent" THEN cfg.hil_mode
                  ELSE hil_mode_
  /\ hil_state_level_' =
       IF cfg.hil_state_level # "absent" THEN cfg.hil_state_level = "true"
       ELSE hil_state_level_
  /\ serial_enabled_' = cfg.serialEnabled
  /\ io_pc' = IF cfg.serialEnabled THEN "idle" ELSE io_pc
  /\ dev_open' = (cfg.serialEnabled /\ cfg.openOk)
  /\ UNCHANGED mavlink_udp_port_
  /\ IF cfg.udp # "invalid_addr"
     THEN /\ qgc_udp_port_' = IF cfg.qgc_udp_port # 0 THEN cfg.qgc_udp_port
                              ELSE qgc_udp_port_
          /\ fd' = IF cfg.udp = "ok" THEN "bound" ELSE "unbound"
          /\ srcaddr' = IF cfg.serialEnabled
                        THEN Endpoint("qgc_addr", qgc_udp_port_')
                        ELSE Endpoint("mavlink_addr", mavlink_udp_port_)
     ELSE UNCHANGED <<qgc_udp_port_, fd, srcaddr>>
  /\ UNCHANGED <<txvars, nsent, udp_log, calls, m_status, m_buffer, comm0,
                 rx_log, poll_log, handled, received_first_referenc_,
                 last_actuator_time_, sim_time, motor_cmd, npolls, nreads,
                 read_log, imu_log,
                 flowvars, mutex, sim_pc, sim_msg, io_arg,
                 io_stopped, closing, stale_use>>

\* ------------------------------------------------- send_mavlink_message
\* The part of the state send_mavlink_message, handle_message and the
\* decoders work on, as one record.
Cur == [tx_q |-> tx_q, posted |-> posted, nsent |-> nsent,
        accepted |-> accepted, udp_log |-> udp_log, calls |-> calls,
        srcaddr |-> srcaddr, m_status |-> m_status, m_buffer |-> m_buffer,
        comm0 |-> comm0, rx_log |-> rx_log, poll_log |-> poll_log,
        handled |-> handled,
        input_reference_ |-> input_reference_,
        received_first_referenc_ |-> received_first_referenc_,
        last_actuator_time_ |-> last_actuator_time_]

Commit(st) ==
  /\ tx_q' = st.tx_q
  /\ posted' = st.posted
  /\ nsent' = st.nsent
  /\ accepted' = st.accepted
  /\ udp_log' = st.udp_log
  /\ calls' = st.calls
  /\ srcaddr' = st.srcaddr
  /\ m_status' = st.m_status
  /\ m_buffer' = st.m_buffer
  /\ comm0' = st.comm0
  /\ rx_log' = st.rx_log
  /\ poll_log' = st.poll_log
  /\ handled' = st.handled
  /\ input_reference_' = st.input_reference_
  /\ received_first_referenc_' = st.received_first_referenc_
  /\ last_actuator_time_' = st.last_actuator_time_

send_mavlink_message_udp_fallback(st, message, destination_port) ==
  LET seq == st.nsent + 1
      s0 == [st EXCEPT !.nsent = seq, !.calls = Append(@, destination_port)]
  IN IF serial_enabled_ /\ destination_port = 0 /\ dev_open
     THEN [s0 EXCEPT !.tx_q = Append(@, MsgBuffer(seq, message)),
                     !.accepted = Append(@, MsgBuffer(seq, message)),
                     !.posted = @ + 1]
     ELSE [s0 EXCEPT !.udp_log = Append(@, [seq |-> seq, msg |-> message,
                                            port |-> destination_port,
                                            to |-> st.srcaddr])]

\* send_mavlink_message(message, destination_port) on state st. The serial
\* branch returns when the port is closed; the overflow test has an empty
\* body, so the frame is appended whatever the queue's length, and a
\* do_write(true) is posted. The UDP branch builds dest_addr and then
\* passes _srcaddr to sendto.
send_mavlink_message(st, message, destination_port) ==
  LET seq == st.nsent + 1
      s0 == [st EXCEPT !.nsent = seq, !.calls = Append(@, destination_port)]
  IN IF serial_enabled_ /\ destination_port = 0
     THEN IF ~dev_open
          THEN s0
          ELSE [s0 EXCEPT !.tx_q = Append(@, MsgBuffer(seq, message)),
                          !.accepted = Append(@, MsgBuffer(seq, message)),
                          !.posted = @ + 1]
     ELSE LET dest_addr == IF destination_port # 0
                           THEN [st.srcaddr EXCEPT !.port = destination_port]
                           ELSE st.srcaddr
          IN [s0 EXCEPT !.udp_log = Append(@, [seq |-> seq, msg |-> message,
                                               port |-> destination_port,
                                               to |-> st.srcaddr])]

\* A sensor callback (IMU, GPS, lidar, ...) sends the frame it has built,
\* with the default destination_port 0.
SensorSend(limit, msgs) ==
  /\ loaded
  /\ nsent < limit
  /\ \E m \in msgs : Commit(send_mavlink_message(Cur, m, 0))
  /\ UNCHANGED <<cfgvars, tx_in_progress, writes, wire, serial_errors,
                 tickvars, threadvars>>

\* -------------------------------------------------------- handle_message
handle_message_ignore_mode(st, msg, via, framing) ==
  LET s0 == [st EXCEPT !.handled = Append(@, [msg |-> msg, via |-> via,
                                               framing |-> framing])]
  IN IF msg.msgid = MAVLINK_MSG_ID_HIL_ACTUATOR_CONTROLS
     THEN LET controls == hil_actuator_controls_decode(msg)
          IN [s0 EXCEPT
                !.last_actuator_time_ = sim_time,
                !.input_reference_ =
                   [i \in Channels |->
                      (controls.controls[i] + input_offset_[i])
                        * input_scaling_[i] + zero_position_armed_[i]],
                !.received_first_referenc_ = TRUE]
     ELSE s0

handle_message_no_offset(st, msg, via, framing) ==
  LET s0 == [st EXCEPT !.handled = Append(@, [msg |-> msg, via |-> via,
                                               framing |-> framing])]
  IN IF msg.msgid = MAVLINK_MSG_ID_HIL_ACTUATOR_CONTROLS
     THEN LET controls == hil_actuator_controls_decode(msg)
              armed == (controls.mode \div MAV_MODE_FLAG_SAFETY_ARMED) % 2 = 1
          IN [s0 EXCEPT
                !.last_actuator_time_ = sim_time,
                !.input_reference_ =
                   [i \in Channels |->
                      IF armed
                      THEN controls.controls[i] * input_scaling_[i]
                             + zero_position_armed_[i]
                      ELSE zero_position_disarmed_[i]],
                !.received_first_referenc_ = TRUE]
     ELSE s0

handle_message_default_case(st, msg, via, framing) ==
  LET s0 == [st EXCEPT !.handled = Append(@, [msg |-> msg, via |-> via,
                                               framing |-> framing])]
  IN IF msg.msgid = MAVLINK_MSG_ID_HIL_ACTUATOR_CONTROLS
     THEN LET controls == hil_actuator_controls_decode(msg)
              armed == (controls.mode \div MAV_MODE_FLAG_SAFETY_ARMED) % 2 = 1
          IN [s0 EXCEPT
                !.last_actuator_time_ = sim_time,
                !.input_reference_ =
                   [i \in Channels |->
                      IF armed
                      THEN (controls.controls[i] + input_offset_[i])
                             * input_scaling_[i] + zero_position_armed_[i]
                      ELSE zero_position_disarmed_[i]],
                !.received_first_referenc_ = TRUE]
     ELSE [s0 EXCEPT !.input_reference_ = ZeroArray]

\* handle_message(msg) on state st: only HIL_ACTUATOR_CONTROLS has a case.
\* via and framing say where the caller got msg from (history only).
handle_message(st, msg, via, framing) ==
  LET s0 == [st EXCEPT !.handled = Append(@, [msg |-> msg, via |-> via,
                                               framing |-> framing])]
  IN IF msg.msgid = MAVLINK_MSG_ID_HIL_ACTUATOR_CONTROLS
     THEN LET controls == hil_actuator_controls_decode(msg)
              armed == (controls.mode \div MAV_MODE_FLAG_SAFETY_ARMED) % 2 = 1
          IN [s0 EXCEPT
                !.last_actuator_time_ = sim_time,
                !.input_reference_ =
                   [i \in Channels |->
                      IF armed
                      THEN (controls.controls[i] + input_offset_[i])
                             * input_scaling_[i] + zero_position_armed_[i]
                      ELSE zero_position_disarmed_[i]],
                !.received_first_referenc_ = TRUE]
     ELSE s0

\* ---------------------------------------------------------- parse_buffer
parse_byte_no_resync(st, c) ==
  LET r0 == mavlink_frame_char_buffer(st.m_buffer, st.m_status, c)
      r == [r0 EXCEPT !.status.msg_received = "incomplete"]
      s0 == [st EXCEPT !.m_buffer = r.rxmsg, !.m_status = r.status]
  IN IF r0.res # "incomplete"
     THEN LET s1 == send_mavlink_message(s0, r0.message, qgc_udp_port_)
              s2 == handle_message(s1, r0.message, "serial", r0.res)
          IN [s2 EXCEPT !.rx_log = Append(@,
                [framing |-> r0.res, msg |-> r0.message, c |-> c,
                 after |-> [parse_state |-> r.status.parse_state,
                            len |-> r.rxmsg.len,
                            checksum |-> r.rxmsg.checksum],
                 forwarded |-> SubSeq(s2.udp_log, Len(st.udp_log) + 1,
                                      Len(s2.udp_log)),
                 handled |-> SubSeq(s2.handled, Len(st.handled) + 1,
                                    Len(s2.handled))])]
     ELSE s0

\* One turn of parse_buffer's loop, for byte c: the byte goes through the
\* decoder (with the resync after a bad frame); whenever the result is not
\* incomplete, the message is sent to qgc_udp_port_ and handled. rx_log
\* records the byte, the decoder's state after it, and what the turn sent
\* to UDP and handled.
parse_byte(st, c) ==
  LET r0 == mavlink_frame_char_buffer(st.m_buffer, st.m_status, c)
      r == resync(r0, c)
      s0 == [st EXCEPT !.m_buffer = r.rxmsg, !.m_status = r.status]
  IN IF r0.res # "incomplete"
     THEN LET s1 == send_mavlink_message(s0, r0.message, qgc_udp_port_)
              s2 == handle_message(s1, r0.message, "serial", r0.res)
          IN [s2 EXCEPT !.rx_log = Append(@,
                [framing |-> r0.res, msg |-> r0.message, c |-> c,
                 after |-> [parse_state |-> r.status.parse_state,
                            len |-> r.rxmsg.len,
                            checksum |-> r.rxmsg.checksum],
                 forwarded |-> SubSeq(s2.udp_log, Len(st.udp_log) + 1,
                                      Len(s2.udp_log)),
                 handled |-> SubSeq(s2.handled, Len(st.handled) + 1,
                                    Len(s2.handled))])]
     ELSE s0

\* parse_buffer(err, bytes_t): every byte read, in order.
RECURSIVE parse_buffer(_, _)
parse_buffer(st, bytes) ==
  IF bytes = <<>> THEN st
  ELSE parse_buffer(parse_byte(st, Head(bytes)), Tail(bytes))

\* An async_read_some completes with the bytes of chunk; parse_buffer runs
\* on the I/O thread and re-arms the read. read_log records the bytes,
\* whether the decoder was idle before them, and the frames they completed.
SerialRead(chunks) ==
  /\ loaded
  /\ dev_open
  /\ nreads < MaxReads
  /\ nreads' = nreads + 1
  /\ \E chunk \in chunks :
       LET st == parse_buffer(Cur, chunk)
       IN /\ Commit(st)
          /\ read_log' = Append(read_log,
               [bytes |-> chunk, idle |-> m_status.parse_state = "IDLE",
                frames |-> SubSeq(st.rx_log, Len(rx_log) + 1,
                                  Len(st.rx_log))])
  /\ UNCHANGED <<cfgvars, tx_in_progress, writes, wire, serial_errors,
                 sim_time, last_time_, motor_cmd, npolls, last_imu_time_,
                 imu_log,
                 flowvars, threadvars>>

\* ------------------------------------------------ pollForMAVLinkMessages
poll_byte_no_mirror(st, c) ==
  LET r0 == mavlink_frame_char_buffer(st.comm0.buffer, st.comm0.status, c)
      r == resync(r0, c)
      s0 == [st EXCEPT !.comm0 = [status |-> r.status, buffer |-> r.rxmsg]]
  IN IF r0.res = "ok"
     THEN LET s2 == handle_message(s0, r0.message, "udp", r0.res)
          IN [s2 EXCEPT !.poll_log = Append(@,
                [msg |-> r0.message,
                 queued |-> SubSeq(s2.accepted, Len(st.accepted) + 1,
                                   Len(s2.accepted)),
                 forwarded |-> SubSeq(s2.udp_log, Len(st.udp_log) + 1,
                                      Len(s2.udp_log)),
                 handled |-> SubSeq(s2.handled, Len(st.handled) + 1,
                                    Len(s2.handled))])]
     ELSE s0

\* One turn of the loop of pollForMAVLinkMessages, for byte c.
\* mavlink_parse_char on channel MAVLINK_COMM_0 returns a frame only when
\* it is ok; after a bad one the channel resynchronises. The frame is sent
\* with the default destination_port when serial is enabled, then handled.
\* poll_log records what the turn queued, sent to UDP and handled.
poll_byte(st, c) ==
  LET r0 == mavlink_frame_char_buffer(st.comm0.buffer, st.comm0.status, c)
      r == resync(r0, c)
      s0 == [st EXCEPT !.comm0 = [status |-> r.status, buffer |-> r.rxmsg]]
  IN IF r0.res = "ok"
     THEN LET s1 == IF serial_enabled_
                    THEN send_mavlink_message(s0, r0.message, 0)
                    ELSE s0
              s2 == handle_message(s1, r0.message, "udp", r0.res)
          IN [s2 EXCEPT !.poll_log = Append(@,
                [msg |-> r0.message,
                 queued |-> SubSeq(s2.accepted, Len(st.accepted) + 1,
                                   Len(s2.accepted)),
                 forwarded |-> SubSeq(s2.udp_log, Len(st.udp_log) + 1,
                                      Len(s2.udp_log)),
                 handled |-> SubSeq(s2.handled, Len(st.handled) + 1,
                                    Len(s2.handled))])]
     ELSE s0

RECURSIVE poll_bytes(_, _)
poll_bytes(st, bytes) ==
  IF bytes = <<>> THEN st
  ELSE poll_bytes(poll_byte(st, Head(bytes)), Tail(bytes))

\* pollForMAVLinkMessages: dgram is what the zero-timeout poll finds,
\* NoDatagram or [from, bytes]. recvfrom stores the sender in _srcaddr.
NoDatagram == [from |-> Endpoint("none", 0), bytes |-> <<>>]

pollForMAVLinkMessages(st, dgram) ==
  IF dgram = NoDatagram THEN st
  ELSE LET s0 == [st EXCEPT !.srcaddr = dgram.from]
       IN IF Len(dgram.bytes) > 0 THEN poll_bytes(s0, dgram.bytes) ELSE s0

\* OnUpdate: the world update event. Polls the UDP socket, then publishes
\* the motor command once a first reference has been received.
OnUpdate(dgrams) ==
  /\ loaded
  /\ \E dgram \in dgrams \cup {NoDatagram} :
       /\ dgram # NoDatagram => fd = "bound" /\ npolls < MaxPolls
       /\ npolls' = IF dgram = NoDatagram THEN npolls ELSE npolls + 1
       /\ LET st == pollForMAVLinkMessages(Cur, dgram)
          IN /\ Commit(st)
             /\ motor_cmd' =
                  IF st.received_first_referenc_
                  THEN [i \in DOMAIN st.input_reference_ |->
                          IF st.last_actuator_time_ = 0
                             \/ sim_time - st.last_actuator_time_ > 200
                          THEN 0 ELSE st.input_reference_[i]]
                  ELSE motor_cmd
  /\ last_time_' = sim_time
  /\ UNCHANGED <<cfgvars, tx_in_progress, writes, wire, serial_errors,
                 sim_time, nreads, read_log, last_imu_time_, imu_log,
                 flowvars,
                 threadvars>>

\* -------------------------------------------------------------- do_write
\* do_write(check_tx_state) on queue q, flag inprog and outstanding writes
\* ws: returns the new flag and the new outstanding writes. The write it
\* starts is of the head, from its cursor (dpos()) for nbytes() bytes; the
\* completion handler keeps a reference to that queue element (seq).
do_write_unchecked(check_tx_state, q, inprog, ws) ==
  IF q = <<>>
  THEN [tx_in_progress |-> inprog, writes |-> ws]
  ELSE [tx_in_progress |-> TRUE,
        writes |-> Append(ws, [seq |-> Head(q).seq,
                               from |-> Head(q).pos,
                               n |-> nbytes(Head(q))])]

do_write_restart(check_tx_state, q, inprog, ws) ==
  IF check_tx_state /\ inprog
  THEN [tx_in_progress |-> inprog, writes |-> ws]
  ELSE IF q = <<>>
  THEN [tx_in_progress |-> inprog, writes |-> ws]
  ELSE [tx_in_progress |-> TRUE,
        writes |-> Append(ws, [seq |-> Head(q).seq,
                               from |-> 0,
                               n |-> Head(q).len])]

do_write(check_tx_state, q, inprog, ws) ==
  IF check_tx_state /\ inprog
  THEN [tx_in_progress |-> inprog, writes |-> ws]
  ELSE IF q = <<>>
  THEN [tx_in_progress |-> inprog, writes |-> ws]
  ELSE [tx_in_progress |-> TRUE,
        writes |-> Append(ws, [seq |-> Head(q).seq,
                               from |-> Head(q).pos,
                               n |-> nbytes(Head(q))])]

\* The io_service runs one posted do_write(true).
DoWritePosted ==
  /\ posted > 0
  /\ posted' = posted - 1
  /\ LET r == do_write(TRUE, tx_q, tx_in_progress, writes)
     IN /\ tx_in_progress' = r.tx_in_progress
        /\ writes' = r.writes
  /\ UNCHANGED <<cfgvars, tx_q, wire, nsent, accepted, serial_errors,
                 rxvars, tickvars, threadvars>>

RemoveAt(s, k) == SubSeq(s, 1, k - 1) \o SubSeq(s, k + 1, Len(s))

\* Index in q of the element a completion handler's buf_ref refers to, 0
\* when that element is no longer in the queue (the reference dangles).
RefIndex(q, seq) ==
  IF \E i \in 1..Len(q) : q[i].seq = seq
  THEN CHOOSE i \in 1..Len(q) : q[i].seq = seq
  ELSE 0

\* The completion handler's body after a successful write of
\* bytes_transferred bytes: returns the new queue, flag and writes. freed
\* is what a read through a dangling buf_ref yields for nbytes() == 0.
on_write_ok_keep_head(w, bytes_transferred, q, inprog, ws, freed) ==
  IF q = <<>>
  THEN [tx_q |-> q, tx_in_progress |-> FALSE, writes |-> ws]
  ELSE LET i == RefIndex(q, w.seq)
           q1 == IF i = 0 THEN q
                 ELSE [q EXCEPT ![i].pos = @ + bytes_transferred]
           r == do_write(FALSE, q1, inprog, ws)
       IN [tx_q |-> q1, tx_in_progress |-> r.tx_in_progress,
           writes |-> r.writes]

on_write_ok_no_chain(w, bytes_transferred, q, inprog, ws, freed) ==
  IF q = <<>>
  THEN [tx_q |-> q, tx_in_progress |-> FALSE, writes |-> ws]
  ELSE LET i == RefIndex(q, w.seq)
           q1 == IF i = 0 THEN q
                 ELSE [q EXCEPT ![i].pos = @ + bytes_transferred]
           done == IF i = 0 THEN freed ELSE nbytes(q1[i]) = 0
           q2 == IF done THEN Tail(q1) ELSE q1
       IN [tx_q |-> q2, tx_in_progress |-> FALSE, writes |-> ws]

on_write_ok(w, bytes_transferred, q, inprog, ws, freed) ==
  IF q = <<>>
  THEN [tx_q |-> q, tx_in_progress |-> FALSE, writes |-> ws]
  ELSE LET i == RefIndex(q, w.seq)
           q1 == IF i = 0 THEN q
                 ELSE [q EXCEPT ![i].pos = @ + bytes_transferred]
           done == IF i = 0 THEN freed ELSE nbytes(q1[i]) = 0
           q2 == IF done THEN Tail(q1) ELSE q1
       IN IF q2 # <<>>
          THEN LET r == do_write(FALSE, q2, inprog, ws)
               IN [tx_q |-> q2, tx_in_progress |-> r.tx_in_progress,
                   writes |-> r.writes]
          ELSE [tx_q |-> q2, tx_in_progress |-> FALSE, writes |-> ws]

\* The completion handler's body when the write failed: log and return.
on_write_error(w, q, inprog, ws) ==
  [tx_q |-> q, tx_in_progress |-> inprog, writes |-> ws]

\* An outstanding write completes successfully: the device has taken n of
\* the bytes offered, then the handler runs on the I/O thread.
WriteDoneOk ==
  \E k \in 1..Len(writes) :
    LET w == writes[k]
        rest == RemoveAt(writes, k)
    IN \E n \in 1..w.n, freed \in BOOLEAN :
         /\ freed \/ RefIndex(tx_q, w.seq) = 0
         /\ wire' = wire \o FrameBytes(w.seq, w.from, n)
         /\ LET r == on_write_ok(w, n, tx_q, tx_in_progress, rest, freed)
            IN /\ tx_q' = r.tx_q
               /\ tx_in_progress' = r.tx_in_progress
               /\ writes' = r.writes
         /\ UNCHANGED <<cfgvars, posted, nsent, accepted, serial_errors,
                        rxvars, tickvars, threadvars>>

\* An outstanding write fails: no byte is taken, the handler logs.
WriteDoneError ==
  \E k \in 1..Len(writes) :
    LET w == writes[k]
        rest == RemoveAt(writes, k)
        r == on_write_error(w, tx_q, tx_in_progress, rest)
    IN /\ serial_errors' = serial_errors + 1
       /\ tx_q' = r.tx_q
       /\ tx_in_progress' = r.tx_in_progress
       /\ writes' = r.writes
       /\ UNCHANGED <<cfgvars, posted, wire, nsent, accepted, rxvars,
                      tickvars, threadvars>>

\* ------------------------------------------------- the transmit machine
\* Configurations with the serial transport enabled.
SerialConfigs ==
  {c \in Configs : c.serialEnabled /\ c.udp = "ok" /\ c.channels = {}
                     /\ NoImuSettings(c)}

LoadSerial == \E cfg \in SerialConfigs : Load(cfg)
Send == SensorSend(MaxSends, SensorMsgs)

Next == LoadSerial \/ Send \/ DoWritePosted \/ WriteDoneOk \/ WriteDoneError

Spec == Init /\ [][Next]_vars

\* Under a fair I/O thread: a posted handler is eventually run and an
\* outstanding write eventually completes.
FairSpec ==
  Spec /\ WF_vars(DoWritePosted) /\ WF_vars(WriteDoneOk \/ WriteDoneError)

\* ----------------------------------------------------- the flooded queue
\* The producer alone: sensor callbacks enqueue while the I/O thread has
\* not yet run any handler.
FloodConfigs ==
  {c \in Configs : c.serialEnabled /\ c.openOk /\ c.udp = "ok"
                     /\ c.qgc_udp_port = 0 /\ c.channels = {}
                     /\ NoImuSettings(c)}
FloodMsgs == [msgid : {MAVLINK_MSG_ID_HEARTBEAT}, payload : {<<>>}]

LoadFlood == \E cfg \in FloodConfigs : Load(cfg)
SendFlood == SensorSend(MAX_TXQ_SIZE + 1, FloodMsgs)

NextFlood == LoadFlood \/ SendFlood

SpecFlood == Init /\ [][NextFlood]_vars

\* ------------------------------------------------------ the IMU callback
\* Frames the IMU callback builds (payloads left out).
HilSensor == [msgid |-> MAVLINK_MSG_ID_HIL_SENSOR, payload |-> <<>>]
HilStateQuaternion ==
  [msgid |-> MAVLINK_MSG_ID_HIL_STATE_QUATERNION, payload |-> <<>>]

\* The physics engine advances the simulation time.
WorldSteps == {2, 4}
WorldStep ==
  /\ \E d \in WorldSteps :
       /\ sim_time + d <= MaxTime
       /\ sim_time' = sim_time + d
  /\ UNCHANGED <<cfgvars, txvars, nsent, rxvars, last_time_, motor_cmd,
                 npolls, nreads, read_log, last_imu_time_, imu_log,
                 flowvars,
                 threadvars>>

\* Angular rates the IMU may report on the axis (gyro_b).
Gyros == {-1, 2}

\* ImuCallback: dt is the simulation time since last_imu_time_. The
\* sensor frame is built when imu_update_interval_ is not 0 and dt has
\* reached it, is sent unless hil_mode_ with hil_state_level_, and
\* last_imu_time_ is then set; after that block the ground-truth state
\* frame is built and sent unless hil_mode_ without hil_state_level_.
\* Inside the block, gyro_b times the microseconds since last_dt_us
\* (initialised on the first pass) is added to optflow_gyro when more than
\* 1000 of them have passed. last_dt_us and the difference are unsigned 32
\* bit values; the simulation times of the model stay far below 2^32
\* microseconds, so the difference is taken as it is.
ImuCallback ==
  /\ loaded
  /\ Len(imu_log) < MaxImu
  /\ \E gyro_b \in Gyros :
       LET gate == imu_update_interval_ # 0
                     /\ sim_time - last_imu_time_ >= imu_update_interval_
           time_usec == sim_time * 1000
           last == IF last_dt_us = StaticUnset THEN time_usec
                   ELSE last_dt_us
           dt_us == time_usec - last
           add == gate /\ dt_us > 1000
       IN /\ optflow_gyro' = IF add THEN optflow_gyro + gyro_b * dt_us
                             ELSE optflow_gyro
          /\ last_dt_us' = IF add THEN time_usec
                           ELSE IF gate THEN last ELSE last_dt_us
          /\ gyro_log' = IF add
                         THEN Append(gyro_log,
                                     [gyro_b |-> gyro_b, dt_us |-> dt_us])
                         ELSE gyro_log
  /\ UNCHANGED <<flow_log, gps_log>>
  /\ LET current_time == sim_time
         dt == current_time - last_imu_time_
         gate == imu_update_interval_ # 0 /\ dt >= imu_update_interval_
         sensor == gate /\ (~hil_mode_ \/ ~hil_state_level_)
         state == ~hil_mode_ \/ hil_state_level_
         s1 == IF sensor THEN send_mavlink_message(Cur, HilSensor, 0)
               ELSE Cur
         s2 == IF state THEN send_mavlink_message(s1, HilStateQuaternion, 0)
               ELSE s1
     IN /\ Commit(s2)
        /\ last_imu_time_' = IF gate THEN current_time ELSE last_imu_time_
        /\ imu_log' = Append(imu_log,
             [dt |-> dt, interval |-> imu_update_interval_,
              sent |-> (IF sensor THEN <<HilSensor.msgid>> ELSE <<>>)
                         \o (IF state THEN <<HilStateQuaternion.msgid>>
                             ELSE <<>>)])
  /\ UNCHANGED <<cfgvars, tx_in_progress, writes, wire, serial_errors,
                 sim_time, last_time_, motor_cmd, npolls, nreads, read_log,
                 threadvars>>

\* Configurations of the IMU model: UDP only, every IMU setting.
ImuConfigs ==
  {c \in Configs : ~c.serialEnabled /\ ~c.openOk /\ c.udp = "ok"
                     /\ c.qgc_udp_port = 0 /\ c.channels = {}}

LoadImu == \E cfg \in ImuConfigs : Load(cfg)

\* What OpticalFlowCallback does with the accumulator acc for a message of
\* the given quality: the integrated gyro of the sample it sends (signs
\* and the swap of x and y left out) and the accumulator afterwards
\* (optflow_gyro.Set()).
OpticalFlowSample_no_reset(acc, quality) ==
  [integrated_gyro |-> IF quality # 0 THEN acc ELSE 0, optflow_gyro |-> acc]

OpticalFlowSample(acc, quality) ==
  [integrated_gyro |-> IF quality # 0 THEN acc ELSE 0, optflow_gyro |-> 0]

\* OpticalFlowCallback: builds the sample from the message and
\* optflow_gyro, resets the integral and sends the frame.
OpticalFlowCallback ==
  /\ loaded
  /\ Len(flow_log) < MaxFlow
  /\ \E quality \in {0, 255} :
       LET r == OpticalFlowSample(optflow_gyro, quality)
       IN /\ optflow_gyro' = r.optflow_gyro
          /\ flow_log' = Append(flow_log,
               [integrated_gyro |-> r.integrated_gyro, quality |-> quality,
                since |-> gyro_log])
  /\ gyro_log' = <<>>
  /\ Commit(send_mavlink_message(
              Cur, [msgid |-> MAVLINK_MSG_ID_HIL_OPTICAL_FLOW,
                    payload |-> <<>>], 0))
  /\ UNCHANGED <<cfgvars, tx_in_progress, writes, wire, serial_errors,
                 sim_time, last_time_, motor_cmd, npolls, nreads, read_log,
                 last_imu_time_, imu_log, last_dt_us, gps_log, threadvars>>

\* GpsCallback: the HIL_GPS frame is built on every callback and sent
\* unless hil_mode_ with hil_state_level_.
HilGps == [msgid |-> MAVLINK_MSG_ID_HIL_GPS, payload |-> <<>>]

GpsCallback ==
  /\ loaded
  /\ Len(gps_log) < MaxGps
  /\ LET gps == ~hil_mode_ \/ ~hil_state_level_
     IN /\ Commit(IF gps THEN send_mavlink_message(Cur, HilGps, 0) ELSE Cur)
        /\ gps_log' = Append(gps_log,
             [sent |-> IF gps THEN <<HilGps.msgid>> ELSE <<>>])
  /\ UNCHANGED <<cfgvars, tx_in_progress, writes, wire, serial_errors,
                 sim_time, last_time_, motor_cmd, npolls, nreads, read_log,
                 last_imu_time_, imu_log, optflow_gyro, last_dt_us, gyro_log,
                 flow_log, threadvars>>

NextImu == LoadImu \/ WorldStep \/ ImuCallback \/ GpsCallback

\* The IMU and the optical-flow callbacks, with the default IMU settings.
LoadFlow == \E cfg \in {c \in ImuConfigs : NoImuSettings(c)} : Load(cfg)

NextFlow == LoadFlow \/ WorldStep \/ ImuCallback \/ OpticalFlowCallback

SpecFlow == Init /\ [][NextFlow]_vars

SpecImu == Init /\ [][NextImu]_vars

\* ------------------------------------------------------------ the router
\* Messages a peer may send: a heartbeat, and actuator controls with the
\* armed flag in the mode byte.
Heartbeat == [msgid |-> MAVLINK_MSG_ID_HEARTBEAT, payload |-> <<>>]
ArmedControls == [msgid |-> MAVLINK_MSG_ID_HIL_ACTUATOR_CONTROLS,
                  payload |-> <<MAV_MODE_FLAG_SAFETY_ARMED>>]

\* Actuator controls with raw value raw on channels 0 and 1, armed or not.
RawControls(mode, raw) == [msgid |-> MAVLINK_MSG_ID_HIL_ACTUATOR_CONTROLS,
                           payload |-> <<mode, raw, raw>>]

\* A second checksum byte that is wrong for msg.
BadCk(msg) == ((FrameChecksum(msg) \div 256) + 1) % 256

\* Corrupted frames: one whose payload and length are intact but whose
\* checksum is wrong, and a start marker followed by a garbage header byte
\* (a length of 1) and nothing else.
CorruptFrames ==
  {EncodeWithCk(ArmedControls, BadCk(ArmedControls)), <<MAVLINK_STX, 1>>}

\* What one read of the serial device may return: a whole frame, a frame
\* whose checksum is wrong, two frames back to back, the first bytes or
\* the last bytes of a frame, actuator controls with raw values, or a
\* corrupted frame immediately followed by a well-formed one.
RouterChunks ==
  {Encode(Heartbeat), Encode(ArmedControls),
   EncodeWithCk(ArmedControls, BadCk(ArmedControls)),
   Encode(ArmedControls) \o Encode(Heartbeat),
   SubSeq(Encode(Heartbeat), 1, 2),
   SubSeq(Encode(Heartbeat), 3, Len(Encode(Heartbeat))),
   Encode(RawControls(MAV_MODE_FLAG_SAFETY_ARMED, 100)),
   Encode(RawControls(0, 100)), Encode(RawControls(0, 7))}
  \cup {c \o Encode(Heartbeat) : c \in CorruptFrames}

\* Datagrams the UDP socket may deliver, from one sender: one frame, two
\* frames, or a frame whose checksum is wrong.
RouterDatagrams ==
  [from : Senders,
   bytes : {Encode(Heartbeat),
            Encode(Heartbeat)
              \o Encode(RawControls(MAV_MODE_FLAG_SAFETY_ARMED, 100)),
            EncodeWithCk(Heartbeat, BadCk(Heartbeat))}]

\* Configurations of the router model: all transports, channels 0 and 1
\* mapped.
RouterConfigs ==
  {c \in Configs : c.channels = {ChannelA, ChannelB} /\ NoImuSettings(c)}

LoadAny == \E cfg \in RouterConfigs : Load(cfg)
SendRouter == SensorSend(MaxSends, {Heartbeat})
ReadRouter == SerialRead(RouterChunks)
Tick == OnUpdate(RouterDatagrams)

NextRouter == LoadAny \/ SendRouter \/ ReadRouter \/ Tick

SpecRouter == Init /\ [][NextRouter]_vars

\* ------------------------------------- handle_message on the I/O thread
\* parse_buffer runs on io_thread and calls handle_message without taking
\* any lock, while OnUpdate reads input_reference_ on the simulator's
\* thread: the loop of handle_message that writes input_reference_ is
\* taken one channel at a time here, and a tick may come between two
\* turns.
TornChunks == {Encode(RawControls(MAV_MODE_FLAG_SAFETY_ARMED, 100)),
               Encode(RawControls(0, 7))}

\* A read completes with the bytes of one actuator-control frame:
\* parse_buffer decodes it, sends it to UDP and enters handle_message,
\* which decodes the controls and sets last_actuator_time_. The loop over
\* the channels is still to run: io_arg holds the values it will write.
ParseBufferControls(chunks) ==
  /\ loaded
  /\ dev_open
  /\ io_pc = "idle" /\ ~io_stopped
  /\ m_status.parse_state = "IDLE"
  /\ nreads < MaxReads
  /\ nreads' = nreads + 1
  /\ \E chunk \in chunks :
       LET st == parse_buffer(Cur, chunk)
       IN /\ Commit([st EXCEPT
                       !.input_reference_ = input_reference_,
                       !.received_first_referenc_ =
                          received_first_referenc_])
          /\ read_log' = Append(read_log,
               [bytes |-> chunk, idle |-> TRUE,
                frames |-> SubSeq(st.rx_log, Len(rx_log) + 1,
                                  Len(st.rx_log))])
          /\ io_pc' = "handle_message"
          /\ io_arg' = [at |-> "handle_message",
                        target |-> st.input_reference_, i |-> 0]
  /\ UNCHANGED <<cfgvars, tx_in_progress, writes, wire, serial_errors,
                 sim_time, last_time_, motor_cmd, npolls, last_imu_time_,
                 imu_log,
                 flowvars, mutex, sim_pc, sim_msg, io_stopped, closing,
                 stale_use>>

\* One turn of the loop `for (i...) input_reference_[i] = ...`, or, after
\* the last turn, received_first_referenc_ = true and the return to
\* parse_buffer and the event loop.
HandleMessageStep ==
  /\ io_pc = "handle_message"
  /\ IF io_arg.i < n_out_max
     THEN /\ input_reference_' =
               [input_reference_ EXCEPT ![io_arg.i] = io_arg.target[io_arg.i]]
          /\ io_arg' = [io_arg EXCEPT !.i = @ + 1]
          /\ UNCHANGED <<received_first_referenc_, io_pc>>
     ELSE /\ received_first_referenc_' = TRUE
          /\ io_pc' = "idle"
          /\ io_arg' = NoArg
          /\ UNCHANGED input_reference_
  /\ UNCHANGED <<cfgvars, txvars, nsent, tickvars, m_status, m_buffer,
                 comm0, rx_log, poll_log, handled, last_actuator_time_,
                 srcaddr, udp_log, calls, mutex, sim_pc, sim_msg,
                 io_stopped, closing, stale_use>>

TornConfigs ==
  {c \in Configs : c.serialEnabled /\ c.openOk /\ c.udp = "ok"
                     /\ c.qgc_udp_port = 0
                     /\ c.channels = {ChannelA, ChannelB}
                     /\ NoImuSettings(c)}

LoadTorn == \E cfg \in TornConfigs : Load(cfg)
ReadControls == ParseBufferControls(TornChunks)
TickOnly == OnUpdate({})

NextTorn ==
  LoadTorn \/ WorldStep \/ ReadControls \/ HandleMessageStep \/ TickOnly

SpecTorn == Init /\ [][NextTorn]_vars

\* ------------------------------------------- the two threads, by steps
\* The simulator's thread ("sim") runs the callbacks and close(); the
\* thread io_thread ("io") runs io_service.run() and with it every posted
\* do_write, every completion handler and parse_buffer. A call is cut
\* where it takes the mutex, so that the other thread may run in between.

lock_guard_unchecked(m, t) == TRUE

\* lock_guard lock(mutex) in thread t, the recursive mutex being owned by
\* m: whether the constructor returns.
lock_guard(m, t) == m \in {"free", t}

\* Variables no step of the two threads changes unless it says so.
quietvars == <<loaded, serial_enabled_, qgc_udp_port_, mavlink_udp_port_,
               fd, input_offset_, input_scaling_, zero_position_disarmed_,
               zero_position_armed_, imu_update_interval_, hil_mode_,
               hil_state_level_, sdf, sim_time, last_time_, motor_cmd,
               npolls,
               last_imu_time_, imu_log, flowvars>>
\* What Commit sets.
curvars == <<tx_q, posted, nsent, accepted, rxvars>>

\* send_mavlink_message(&msg) up to its lock_guard: the serial branch
\* returns when the device is not open.
SendEnter(limit, msgs) ==
  /\ loaded
  /\ sim_pc = "idle"
  /\ serial_enabled_
  /\ nsent < limit
  /\ \E m \in msgs :
       IF dev_open
       THEN /\ sim_msg' = m
            /\ sim_pc' = "send_lock"
            /\ UNCHANGED curvars
       ELSE /\ Commit(send_mavlink_message(Cur, m, 0))
            /\ UNCHANGED <<sim_msg, sim_pc>>
  /\ UNCHANGED <<quietvars, dev_open, tx_in_progress, writes, wire,
                 serial_errors, nreads, read_log, mutex, io_pc, io_arg,
                 io_stopped, closing, stale_use>>

SendAcquire ==
  /\ sim_pc = "send_lock"
  /\ lock_guard(mutex, "sim")
  /\ mutex' = "sim"
  /\ sim_pc' = "send_push"
  /\ UNCHANGED <<quietvars, dev_open, curvars, tx_in_progress, writes, wire,
                 serial_errors, nreads, read_log, sim_msg, io_pc, io_arg,
                 io_stopped, closing, stale_use>>

\* emplace_back under the lock, the end of the lock's scope, and the post
\* of do_write(true).
SendPush ==
  /\ sim_pc = "send_push"
  /\ Commit(send_mavlink_message(Cur, sim_msg, 0))
  /\ mutex' = "free"
  /\ sim_pc' = "idle"
  /\ sim_msg' = NoMessage
  /\ UNCHANGED <<quietvars, dev_open, tx_in_progress, writes, wire,
                 serial_errors, nreads, read_log, io_pc, io_arg, io_stopped,
                 closing, stale_use>>

\* close(), called once.
CloseEnter ==
  /\ loaded
  /\ sim_pc = "idle"
  /\ closing = "no"
  /\ closing' = "called"
  /\ sim_pc' = "close_lock"
  /\ UNCHANGED <<quietvars, dev_open, curvars, tx_in_progress, writes, wire,
                 serial_errors, nreads, read_log, mutex, sim_msg, io_pc,
                 io_arg, io_stopped, stale_use>>

\* lock_guard lock(mutex); if (!is_open()) return;
CloseAcquire ==
  /\ sim_pc = "close_lock"
  /\ lock_guard(mutex, "sim")
  /\ IF ~dev_open
     THEN /\ sim_pc' = "idle"
          /\ closing' = "returned"
          /\ UNCHANGED mutex
     ELSE /\ mutex' = "sim"
          /\ sim_pc' = "close_stop"
          /\ UNCHANGED closing
  /\ UNCHANGED <<quietvars, dev_open, curvars, tx_in_progress, writes, wire,
                 serial_errors, nreads, read_log, sim_msg, io_pc, io_arg,
                 io_stopped, stale_use>>

\* io_service.stop();
CloseStop ==
  /\ sim_pc = "close_stop"
  /\ io_stopped' = TRUE
  /\ sim_pc' = "close_device"
  /\ UNCHANGED <<quietvars, dev_open, curvars, tx_in_progress, writes, wire,
                 serial_errors, nreads, read_log, mutex, sim_msg, io_pc,
                 io_arg, closing, stale_use>>

\* serial_dev.close();
CloseDevice ==
  /\ sim_pc = "close_device"
  /\ dev_open' = FALSE
  /\ sim_pc' = "close_join"
  /\ UNCHANGED <<quietvars, curvars, tx_in_progress, writes, wire,
                 serial_errors, nreads, read_log, mutex, sim_msg, io_pc,
                 io_arg, io_stopped, closing, stale_use>>

\* if (io_thread.joinable()) io_thread.join(); then the lock's scope ends.
CloseJoin ==
  /\ sim_pc = "close_join"
  /\ io_pc = "exited"
  /\ mutex' = "free"
  /\ sim_pc' = "idle"
  /\ closing' = "returned"
  /\ UNCHANGED <<quietvars, dev_open, curvars, tx_in_progress, writes, wire,
                 serial_errors, nreads, read_log, sim_msg, io_pc, io_arg,
                 io_stopped, stale_use>>

\* io_service.run() takes a posted do_write(true): the test of
\* tx_in_progress, before the lock.
IoDoWrite ==
  /\ io_pc = "idle" /\ ~io_stopped
  /\ posted > 0
  /\ posted' = posted - 1
  /\ io_pc' = IF tx_in_progress THEN "idle" ELSE "do_write_lock"
  /\ UNCHANGED <<quietvars, dev_open, tx_q, nsent, accepted, rxvars,
                 tx_in_progress, writes, wire, serial_errors, nreads,
                 read_log, mutex, sim_pc, sim_msg, io_arg, io_stopped,
                 closing, stale_use>>

IoDoWriteAcquire ==
  /\ io_pc = "do_write_lock"
  /\ lock_guard(mutex, "io")
  /\ mutex' = "io"
  /\ io_pc' = "do_write_body"
  /\ UNCHANGED <<quietvars, dev_open, curvars, tx_in_progress, writes, wire,
                 serial_errors, nreads, read_log, sim_pc, sim_msg, io_arg,
                 io_stopped, closing, stale_use>>

\* The rest of do_write under the lock; stale_use counts an
\* async_write_some started on a closed device.
IoDoWriteBody ==
  /\ io_pc = "do_write_body"
  /\ LET r == do_write(FALSE, tx_q, tx_in_progress, writes)
     IN /\ tx_in_progress' = r.tx_in_progress
        /\ writes' = r.writes
        /\ stale_use' = IF ~dev_open /\ r.writes # writes
                        THEN stale_use + 1 ELSE stale_use
  /\ mutex' = "free"
  /\ io_pc' = "idle"
  /\ UNCHANGED <<quietvars, dev_open, curvars, wire, serial_errors, nreads,
                 read_log, sim_pc, sim_msg, io_arg, io_stopped, closing>>

\* An outstanding write completes successfully with n bytes taken; the
\* handler starts and reaches its lock_guard.
IoWriteDone ==
  /\ io_pc = "idle" /\ ~io_stopped
  /\ \E k \in 1..Len(writes) :
       \E n \in 1..writes[k].n :
         /\ wire' = wire \o FrameBytes(writes[k].seq, writes[k].from, n)
         /\ writes' = RemoveAt(writes, k)
         /\ io_arg' = [at |-> "done", w |-> writes[k], n |-> n]
  /\ io_pc' = "done_lock"
  /\ UNCHANGED <<quietvars, dev_open, curvars, tx_in_progress,
                 serial_errors, nreads, read_log, mutex, sim_pc, sim_msg,
                 io_stopped, closing, stale_use>>

\* An outstanding write completes with an error: the handler logs and
\* returns before its lock_guard.
IoWriteError ==
  /\ io_pc = "idle" /\ ~io_stopped
  /\ \E k \in 1..Len(writes) :
       LET r == on_write_error(writes[k], tx_q, tx_in_progress,
                               RemoveAt(writes, k))
       IN /\ tx_q' = r.tx_q
          /\ tx_in_progress' = r.tx_in_progress
          /\ writes' = r.writes
  /\ serial_errors' = serial_errors + 1
  /\ UNCHANGED <<quietvars, dev_open, posted, nsent, accepted, rxvars, wire,
                 nreads, read_log, threadvars>>

IoDoneAcquire ==
  /\ io_pc = "done_lock"
  /\ lock_guard(mutex, "io")
  /\ mutex' = "io"
  /\ io_pc' = "done_body"
  /\ UNCHANGED <<quietvars, dev_open, curvars, tx_in_progress, writes, wire,
                 serial_errors, nreads, read_log, sim_pc, sim_msg, io_arg,
                 io_stopped, closing, stale_use>>

\* The handler's body under the lock, with the do_write(false) it may
\* chain (the mutex is recursive).
IoDoneBody ==
  /\ io_pc = "done_body"
  /\ \E freed \in BOOLEAN :
       /\ freed \/ RefIndex(tx_q, io_arg.w.seq) = 0
       /\ LET r == on_write_ok(io_arg.w, io_arg.n, tx_q, tx_in_progress,
                               writes, freed)
          IN /\ tx_q' = r.tx_q
             /\ tx_in_progress' = r.tx_in_progress
             /\ writes' = r.writes
             /\ stale_use' = IF ~dev_open /\ r.writes # writes
                             THEN stale_use + 1 ELSE stale_use
  /\ mutex' = "free"
  /\ io_pc' = "idle"
  /\ io_arg' = NoArg
  /\ UNCHANGED <<quietvars, dev_open, posted, nsent, accepted, rxvars, wire,
                 serial_errors, nreads, read_log, sim_pc, sim_msg,
                 io_stopped, closing>>

\* An async_read_some completes with the bytes of chunk; parse_buffer
\* starts (it takes no lock).
IoRead(chunks) ==
  /\ io_pc = "idle" /\ ~io_stopped
  /\ dev_open
  /\ nreads < MaxReads
  /\ nreads' = nreads + 1
  /\ \E chunk \in chunks : io_arg' = [at |-> "parse_buffer", bytes |-> chunk]
  /\ io_pc' = "parse_buffer"
  /\ UNCHANGED <<quietvars, dev_open, curvars, tx_in_progress, writes, wire,
                 serial_errors, read_log, mutex, sim_pc, sim_msg,
                 io_stopped, closing, stale_use>>

\* parse_buffer's loop and its do_read(); stale_use counts an
\* async_read_some started on a closed device.
IoParseBuffer ==
  /\ io_pc = "parse_buffer"
  /\ LET st == parse_buffer(Cur, io_arg.bytes)
     IN /\ Commit(st)
        /\ read_log' = Append(read_log,
             [bytes |-> io_arg.bytes, idle |-> m_status.parse_state = "IDLE",
              frames |-> SubSeq(st.rx_log, Len(rx_log) + 1,
                                Len(st.rx_log))])
  /\ stale_use' = IF ~dev_open THEN stale_use + 1 ELSE stale_use
  /\ io_pc' = "idle"
  /\ io_arg' = NoArg
  /\ UNCHANGED <<quietvars, dev_open, tx_in_progress, writes, wire,
                 serial_errors, nreads, mutex, sim_pc, sim_msg, io_stopped,
                 closing>>

\* io_service.run() returns once the service is stopped and no handler
\* is running; the thread ends.
IoExit ==
  /\ io_pc = "idle"
  /\ io_stopped
  /\ io_pc' = "exited"
  /\ UNCHANGED <<quietvars, dev_open, curvars, tx_in_progress, writes, wire,
                 serial_errors, nreads, read_log, mutex, sim_pc, sim_msg,
                 io_arg, io_stopped, closing, stale_use>>

ThreadConfigs ==
  {c \in Configs : c.serialEnabled /\ c.udp = "ok" /\ c.qgc_udp_port = 0
                     /\ c.channels = {} /\ NoImuSettings(c)}

LoadThreads == \E cfg \in ThreadConfigs : Load(cfg)
SendBegin == SendEnter(MaxSends, {Heartbeat})
ReadBegin == IoRead({Encode(Heartbeat)})

\* The steps that continue a call the simulator's thread is inside, and
\* the steps of io_thread.
SimRuns == SendAcquire \/ SendPush \/ CloseAcquire \/ CloseStop
             \/ CloseDevice \/ CloseJoin
IoRuns == IoDoWrite \/ IoDoWriteAcquire \/ IoDoWriteBody \/ IoWriteDone
            \/ IoWriteError \/ IoDoneAcquire \/ IoDoneBody \/ ReadBegin
            \/ IoParseBuffer \/ IoExit

NextThreads == LoadThreads \/ SendBegin \/ CloseEnter \/ SimRuns \/ IoRuns

SpecThreads == Init /\ [][NextThreads]_vars

\* The shutdown alone: one frame to write, no reads. Both threads keep
\* running: a call the simulator's thread is inside goes on whenever it
\* can, and io_thread takes its next step whenever it has one.
SendOne == SendEnter(MaxShutdownSends, {Heartbeat})
IoWrites == IoDoWrite \/ IoDoWriteAcquire \/ IoDoWriteBody \/ IoWriteDone
              \/ IoWriteError \/ IoDoneAcquire \/ IoDoneBody \/ IoExit

NextShutdown == LoadThreads \/ SendOne \/ CloseEnter \/ SimRuns \/ IoWrites

SpecShutdown == Init /\ [][NextShutdown]_vars

FairShutdown == SpecShutdown /\ WF_vars(SimRuns) /\ WF_vars(IoWrites)

\* ---------------------------------------------------- the serial decoder
\* What a read may return to the decoder: whole frames, a frame whose
\* wrong second checksum byte is the start marker, a frame without its
\* start marker, the two together, a frame with a wrong checksum followed
\* by a good one, a start marker with a length byte, a lone start marker,
\* a byte of noise, and the two halves of a frame.
DecoderChunks ==
  {Encode(Heartbeat), Encode(ArmedControls),
   EncodeWithCk(Heartbeat, MAVLINK_STX),
   Tail(Encode(Heartbeat)),
   EncodeWithCk(Heartbeat, MAVLINK_STX) \o Tail(Encode(Heartbeat)),
   EncodeWithCk(ArmedControls, BadCk(ArmedControls)) \o Encode(Heartbeat),
   <<MAVLINK_STX, 1>>, <<MAVLINK_STX>>, <<0>>,
   SubSeq(Encode(Heartbeat), 1, 2),
   SubSeq(Encode(Heartbeat), 3, Len(Encode(Heartbeat)))}

NextDecoder == LoadTorn \/ SerialRead(DecoderChunks)

SpecDecoder == Init /\ [][NextDecoder]_vars

\* ------------------------------------------------- open() that failed
\* Load posts do_read and starts io_thread before it calls open(). A read
\* started on a device that is not open completes at once with an error
\* and no bytes; parse_buffer does not look at err, runs its loop over
\* zero bytes and calls do_read() again.
ParseBufferError ==
  /\ loaded
  /\ serial_enabled_ /\ ~dev_open
  /\ io_pc = "idle" /\ ~io_stopped
  /\ nreads < MaxReads
  /\ nreads' = nreads + 1
  /\ Commit(parse_buffer(Cur, <<>>))
  /\ read_log' = Append(read_log,
       [bytes |-> <<>>, idle |-> m_status.parse_state = "IDLE",
        frames |-> <<>>])
  /\ stale_use' = stale_use + 1
  /\ UNCHANGED <<quietvars, dev_open, tx_in_progress, writes, wire,
                 serial_errors, mutex, sim_pc, sim_msg, io_pc, io_arg,
                 io_stopped, closing>>

\* Serial enabled, open() fails, the UDP setup succeeds.
OpenFailedConfigs ==
  {c \in Configs : c.serialEnabled /\ ~c.openOk /\ c.udp = "ok"
                     /\ c.channels = {ChannelA, ChannelB}
                     /\ NoImuSettings(c)}

LoadOpenFailed == \E cfg \in OpenFailedConfigs : Load(cfg)

NextOpenFailed == LoadOpenFailed \/ SendRouter \/ ParseBufferError \/ Tick

SpecOpenFailed == Init /\ [][NextOpenFailed]_vars

\* --------------------------------------------------------------- helpers
\* The write descriptor do_write makes for queue element b.
WriteOf(b) == [seq |-> b.seq, from |-> b.pos, n |-> nbytes(b)]

\* The bytes of the frames of q not yet written, head first.
RECURSIVE Remaining(_)
Remaining(q) ==
  IF q = <<>> THEN <<>>
  ELSE FrameBytes(Head(q).seq, Head(q).pos, nbytes(Head(q)))
         \o Remaining(Tail(q))

InQueue(seq) == \E i \in 1..Len(tx_q) : tx_q[i].seq = seq

\* ---------------------------------------------------------------- claims

\* C1: the transmit queue never holds more than MAX_TXQ_SIZE frames (a
\* frame sent while the queue is full is dropped).
C1_QueueBounded == Len(tx_q) <= MAX_TXQ_SIZE

\* C2: at most one async write is outstanding on the serial device, and it
\* is a write of the head of tx_q from the head's cursor.
C2_SingleInFlight ==
  /\ Len(writes) <= 1
  /\ writes # <<>> => /\ tx_q # <<>>
                      /\ writes[1] = WriteOf(Head(tx_q))

C2_Witness ==
  /\ Len(writes) = 1
  /\ Len(tx_q) >= 2
  /\ posted > 0
  /\ Head(tx_q).pos > 0

\* C3: under a fair I/O thread every frame appended to tx_q eventually
\* leaves it (written in full, or abandoned after a write error).
C3_DrainCompleteness ==
  \A seq \in 1..MaxSends : InQueue(seq) ~> ~InQueue(seq)

\* C4: a write that completes with an error removes the frame in flight
\* from tx_q and does not leave tx_in_progress set with no write
\* outstanding.
C4_ErrorAbandons ==
  [][serial_errors' # serial_errors =>
       /\ tx_q # <<>>
       /\ tx_q' = Tail(tx_q)
       /\ (tx_in_progress' => writes' # <<>>)]_vars

\* C5: the bytes the serial device has taken, followed by the unwritten
\* bytes of the queued frames, are the accepted frames in enqueue order:
\* the wire carries each frame whole and once, before any later frame.
C5_OrderedEgress ==
  wire \o Remaining(tx_q) = Remaining(accepted)

C5_Witness ==
  /\ Len(tx_q) >= 2
  /\ Head(tx_q).seq > 1
  /\ Head(tx_q).pos > 0
  /\ wire # <<>>
  /\ wire[1][1] = 1

\* C6: a successful completion of n bytes advances the head's cursor by n,
\* pops the head iff the cursor reached its length, then either has a
\* write of the head outstanding (no posted handler involved) or has
\* cleared tx_in_progress on an empty queue.
C6_CompletionStep ==
  [][Len(wire') > Len(wire) =>
       LET n == Len(wire') - Len(wire)
           h == Head(tx_q)
       IN /\ tx_q' = IF h.pos + n = h.len THEN Tail(tx_q)
                     ELSE [tx_q EXCEPT ![1].pos = h.pos + n]
          /\ posted' = posted
          /\ IF tx_q' # <<>>
             THEN tx_in_progress' /\ writes' = <<WriteOf(Head(tx_q'))>>
             ELSE ~tx_in_progress' /\ writes' = <<>>]_vars

C6_Witness ==
  /\ Len(writes) = 1
  /\ posted = 0
  /\ Head(tx_q).seq > 1
  /\ Len(wire) >= 2

\* Whether send call s appended its frame to tx_q, and how many sendto
\* calls it made.
InAccepted(s) == \E i \in 1..Len(accepted) : accepted[i].seq = s
UdpCount(s) == Cardinality({i \in 1..Len(udp_log) : udp_log[i].seq = s})

\* C7 as claimed: a send call appends to tx_q iff serial is enabled and
\* destination_port is 0, and otherwise makes exactly one sendto.
C7_RoutingAsClaimed ==
  \A s \in 1..nsent :
    LET serial == serial_enabled_ /\ calls[s] = 0
    IN /\ InAccepted(s) <=> serial
       /\ UdpCount(s) = IF serial THEN 0 ELSE 1

\* C7, amended: a send call takes the serial path iff serial is enabled
\* and destination_port is 0; on that path the frame is appended to tx_q
\* when the device is open and dropped when it is not; every other call
\* makes exactly one sendto; no call does both.
C7_Routing ==
  \A s \in 1..nsent :
    LET serial == serial_enabled_ /\ calls[s] = 0
    IN /\ InAccepted(s) <=> (serial /\ dev_open)
       /\ UdpCount(s) = IF serial THEN 0 ELSE 1

C7_Witness ==
  /\ serial_enabled_ /\ ~dev_open /\ fd = "bound"
  /\ nsent >= 2
  /\ \A s \in 1..nsent : calls[s] = 0 /\ ~InAccepted(s) /\ UdpCount(s) = 0

\* C8: a sendto made for a call with a non-zero destination_port goes to
\* that port.
C8_UdpDestination ==
  fd = "bound" =>
    \A i \in 1..Len(udp_log) :
      udp_log[i].port # 0 => udp_log[i].to.port = udp_log[i].port

\* C9: with serial and UDP both set up, every frame the serial decoder
\* completes as ok is sent exactly once, to the ground-station peer, and
\* handled exactly once.
C9_SerialDispatch ==
  fd = "bound" =>
    \A i \in 1..Len(rx_log) :
      rx_log[i].framing = "ok" =>
        /\ Len(rx_log[i].forwarded) = 1
        /\ rx_log[i].forwarded[1].msg = rx_log[i].msg
        /\ rx_log[i].forwarded[1].to = GcsPeer
        /\ rx_log[i].handled = <<[msg |-> rx_log[i].msg, via |-> "serial",
                                  framing |-> "ok"]>>

\* C10: a frame the serial decoder completes as bad_crc or bad_signature
\* is neither sent to UDP nor passed to handle_message.
C10_CorruptNotSurfaced ==
  \A i \in 1..Len(rx_log) :
    rx_log[i].framing # "ok" =>
      rx_log[i].forwarded = <<>> /\ rx_log[i].handled = <<>>

\* C11 as claimed: every frame recovered from a datagram is handled
\* exactly once and, when serial is enabled, appended exactly once to
\* tx_q.
C11_UdpInboundAsClaimed ==
  \A i \in 1..Len(poll_log) :
    /\ poll_log[i].handled = <<[msg |-> poll_log[i].msg, via |-> "udp",
                                framing |-> "ok"]>>
    /\ Len(poll_log[i].queued) = IF serial_enabled_ THEN 1 ELSE 0

\* C11, amended: every frame recovered from a datagram is handled exactly
\* once; when serial is enabled and the serial device is open it is also
\* appended exactly once to tx_q; when serial is enabled and the device is
\* not open it is dropped from the serial path; it is never sent back to
\* UDP.
C11_UdpInbound ==
  \A i \in 1..Len(poll_log) :
    /\ poll_log[i].handled = <<[msg |-> poll_log[i].msg, via |-> "udp",
                                framing |-> "ok"]>>
    /\ Len(poll_log[i].queued) =
         IF serial_enabled_ /\ dev_open THEN 1 ELSE 0
    /\ \A k \in 1..Len(poll_log[i].queued) :
         poll_log[i].queued[k].len = PacketLen(poll_log[i].msg)
    /\ poll_log[i].forwarded = <<>>

C11_Witness ==
  /\ Len(poll_log) = 2
  /\ serial_enabled_ /\ dev_open
  /\ poll_log[2].msg = RawControls(MAV_MODE_FLAG_SAFETY_ARMED, 100)
  /\ Len(poll_log[1].queued) = 1 /\ Len(poll_log[2].queued) = 1
  /\ poll_log[1].queued[1].seq < poll_log[2].queued[1].seq

\* The frames of a read that the decoder completed as ok.
OkFrames(frames) ==
  SelectSeq([k \in 1..Len(frames) |->
               [msg |-> frames[k].msg, framing |-> frames[k].framing]],
            LAMBDA f : f.framing = "ok")

\* C12: a read, starting from an idle decoder, of a corrupted frame
\* immediately followed by a well-formed frame emits exactly one ok frame,
\* the well-formed one.
C12_Resynchronisation ==
  \A i \in 1..Len(read_log) :
    \A c \in CorruptFrames :
      (read_log[i].idle /\ read_log[i].bytes = c \o Encode(Heartbeat))
        => OkFrames(read_log[i].frames)
             = <<[msg |-> Heartbeat, framing |-> "ok"]>>

\* The actuator-control frames passed to handle_message so far, and what
\* the last of them decodes to.
ControlsHandled ==
  SelectSeq(handled,
            LAMBDA h : h.msg.msgid = MAVLINK_MSG_ID_HIL_ACTUATOR_CONTROLS)
LastControls ==
  hil_actuator_controls_decode(
    ControlsHandled[Len(ControlsHandled)].msg)
IsArmed(mode) == (mode \div MAV_MODE_FLAG_SAFETY_ARMED) % 2 = 1

\* C14: after handle_message of an actuator-control frame without the
\* safety-armed flag, every channel of input_reference_ is its
\* zero_position_disarmed_, whatever the frame's controls.
C14_DisarmedDecode ==
  (ControlsHandled # <<>> /\ ~IsArmed(LastControls.mode)) =>
    \A i \in Channels : input_reference_[i] = zero_position_disarmed_[i]

C14_Witness ==
  /\ Len(ControlsHandled) = 2
  /\ ControlsHandled[1].msg = RawControls(0, 100)
  /\ ControlsHandled[2].msg = RawControls(0, 7)
  /\ input_reference_[0] = 3 /\ input_reference_[1] = 5

\* C15: after handle_message of an actuator-control frame with the
\* safety-armed flag, channel i of input_reference_ is
\* (controls[i] + input_offset_[i]) * input_scaling_[i]
\* + zero_position_armed_[i], for every i in 0..15.
C15_ArmedDecode ==
  (ControlsHandled # <<>> /\ IsArmed(LastControls.mode)) =>
    \A i \in Channels :
      input_reference_[i] =
        (LastControls.controls[i] + input_offset_[i]) * input_scaling_[i]
          + zero_position_armed_[i]

\* Raw 100 on a channel with offset 0, scaling 1 and armed zero 0 gives
\* 100; on the channel with offset 1, scaling 2 and armed zero 4, 206.
C15_Witness ==
  /\ ControlsHandled # <<>>
  /\ ControlsHandled[Len(ControlsHandled)].msg
       = RawControls(MAV_MODE_FLAG_SAFETY_ARMED, 100)
  /\ input_offset_[1] = 0 /\ input_scaling_[1] = 1
  /\ zero_position_armed_[1] = 0
  /\ input_reference_[1] = 100
  /\ input_reference_[0] = 206

\* C16: an IMU callback that comes before imu_update_interval_ has
\* elapsed since the previous emission sends neither the sensor frame nor
\* the ground-truth state frame.
C16_RateGating ==
  \A i \in 1..Len(imu_log) :
    imu_log[i].dt < imu_log[i].interval => imu_log[i].sent = <<>>

\* C17: with imu_update_interval_ zero, every IMU callback sends the
\* sensor frame (where the HIL settings let the sensor frame be sent).
C17_ZeroIntervalEmits ==
  \A i \in 1..Len(imu_log) :
    (imu_log[i].interval = 0 /\ (~hil_mode_ \/ ~hil_state_level_)) =>
      \E k \in 1..Len(imu_log[i].sent) :
        imu_log[i].sent[k] = MAVLINK_MSG_ID_HIL_SENSOR

\* The reference handle_message computes from a whole frame msg.
ReferenceOf(msg) == handle_message(Cur, msg, "serial", "ok").input_reference_

\* C13: what a tick publishes from input_reference_ is never a mix of two
\* frames: it is all zeros (no fresh reference) or the reference of one
\* whole actuator-control frame.
C13_AtomicReference ==
  \/ motor_cmd = <<>>
  \/ motor_cmd = ZeroArray
  \/ \E k \in 1..Len(ControlsHandled) :
       motor_cmd = ReferenceOf(ControlsHandled[k].msg)

\* C18: tx_q changes only in a step of the thread that holds the mutex
\* (the push of send_mavlink_message, the body of the completion
\* handler), and whenever no completion handler is between taking its
\* bytes and updating the cursor, the bytes written followed by the bytes
\* still queued are the accepted frames in order: nothing lost,
\* duplicated or reordered.
C18_QueueMutualExclusion ==
  /\ [](io_pc \notin {"done_lock", "done_body"} =>
         wire \o Remaining(tx_q) = Remaining(accepted))
  /\ [][tx_q' # tx_q =>
          \/ mutex = "sim" /\ sim_pc = "send_push"
          \/ mutex = "io" /\ io_pc = "done_body"]_vars

\* An enqueue waits for the mutex while a completion handler holds it.
C18_Witness ==
  /\ mutex = "io" /\ io_pc = "done_body"
  /\ sim_pc = "send_lock"
  /\ Len(tx_q) >= 2
  /\ Len(wire) >= 1

\* C19: once close() has closed the serial device the I/O thread has
\* already exited, and no handler starts a read or a write on the closed
\* device.
C19_ShutdownOrdering ==
  /\ (closing # "no" /\ loaded /\ serial_enabled_ /\ ~dev_open
        /\ sim_pc \in {"close_join", "idle"}
        /\ io_stopped)
       => io_pc = "exited"
  /\ stale_use = 0

\* C20: with both threads running, a call of close() returns.
C20_ShutdownTerminates ==
  (closing = "called") ~> (closing = "returned")

\* C21: after an open() that failed, a send routed to serial leaves tx_q
\* unchanged and starts no write, the I/O thread starts no read on the
\* device, and the UDP socket is bound and its frames are handled.
C21_OpenFailureInert ==
  (loaded /\ serial_enabled_ /\ ~dev_open /\ closing = "no") =>
    /\ tx_q = <<>> /\ posted = 0 /\ writes = <<>>
    /\ stale_use = 0
    /\ fd = "bound"
    /\ \A i \in 1..Len(poll_log) : Len(poll_log[i].handled) = 1

\* C22: once Load has set the UDP peer endpoint _srcaddr, no later step
\* changes it.
C22_EndpointImmutable ==
  [][(loaded /\ fd # "none") => srcaddr' = srcaddr]_vars

\* The sum of the accumulations of log, and whether they all have the
\* same angular rate.
RECURSIVE GyroSum(_)
GyroSum(log) ==
  IF log = <<>> THEN 0
  ELSE Head(log).gyro_b * Head(log).dt_us + GyroSum(Tail(log))
ConstantRate(log) ==
  \A i, j \in 1..Len(log) : log[i].gyro_b = log[j].gyro_b

\* C23: optflow_gyro is the sum of what was accumulated since the last
\* optical-flow sample, so it is zero right after a sample; a sample
\* carries that sum (zero when its quality is 0) and nothing older; and
\* while no sample is sent and the angular rate stays the same, the
\* magnitude of optflow_gyro does not decrease.
C23_GyroAccumulator ==
  /\ [](optflow_gyro = GyroSum(gyro_log))
  /\ [](\A i \in 1..Len(flow_log) :
          flow_log[i].integrated_gyro =
            IF flow_log[i].quality # 0 THEN GyroSum(flow_log[i].since)
            ELSE 0)
  /\ [][(flow_log' # flow_log) => optflow_gyro' = 0]_vars
  /\ [][(flow_log' = flow_log /\ ConstantRate(gyro_log'))
          => optflow_gyro' * optflow_gyro' >= optflow_gyro * optflow_gyro]_vars

\* Two accumulations at one rate, a sample that carries them, then a
\* second sample, of good quality, that carries nothing.
C23_Witness ==
  /\ Len(flow_log) = 2
  /\ Len(flow_log[1].since) = 2 /\ ConstantRate(flow_log[1].since)
  /\ flow_log[1].quality # 0
  /\ flow_log[1].integrated_gyro = 2 * 4000 + 2 * 4000
  /\ flow_log[2].since = <<>> /\ flow_log[2].quality # 0
  /\ flow_log[2].integrated_gyro = 0
  /\ optflow_gyro = 0

\* Every byte the serial device has delivered, in order.
RECURSIVE BytesRead(_)
BytesRead(log) ==
  IF log = <<>> THEN <<>> ELSE Head(log).bytes \o BytesRead(Tail(log))

BytesToIdle(st) ==
  CASE st.m_status.parse_state = "IDLE" -> 0
    [] st.m_status.parse_state = "GOT_STX" -> 256 + 4
    [] st.m_status.parse_state = "GOT_LENGTH" -> st.m_buffer.len + 3
    [] st.m_status.parse_state = "GOT_MSGID" ->
         st.m_buffer.len - st.m_status.packet_idx + 2
    [] st.m_status.parse_state = "GOT_PAYLOAD" -> 2
    [] st.m_status.parse_state \in {"GOT_CRC1", "GOT_BAD_CRC1"} -> 1

\* C25: after a frame the decoder reports as bad_crc or bad_signature on
\* byte c, the decoder is idle when c is not the start marker, and has a
\* start marker with length 0 and a fresh checksum when it is; the bytes
\* that follow a bad frame in the same read are decoded; and in every
\* state of the decoder that is not idle one more byte brings it nearer
\* to idle, so that further bytes always bring it back there.
C25_FailureState ==
  /\ \A i \in 1..Len(rx_log) :
       rx_log[i].framing \in {"bad_crc", "bad_signature"} =>
         IF rx_log[i].c = MAVLINK_STX
         THEN /\ rx_log[i].after.parse_state = "GOT_STX"
              /\ rx_log[i].after.len = 0
              /\ rx_log[i].after.checksum = X25_INIT_CRC
         ELSE rx_log[i].after.parse_state = "IDLE"
  /\ \A i \in 1..Len(read_log) :
       (read_log[i].idle
          /\ read_log[i].bytes
               = EncodeWithCk(ArmedControls, BadCk(ArmedControls))
                   \o Encode(Heartbeat))
         => /\ Len(read_log[i].frames) = 2
            /\ read_log[i].frames[1].framing = "bad_crc"
            /\ read_log[i].frames[2].framing = "ok"
            /\ read_log[i].frames[2].msg = Heartbeat
  /\ \/ m_status.parse_state = "IDLE"
     \/ BytesToIdle(parse_byte(Cur, 0)) < BytesToIdle(Cur)

\* A bad frame that ends on another byte, the good frame that follows it
\* in the same read, then a bad frame that ends on the start marker: the
\* decoder has a start marker.
C25_Witness ==
  /\ Len(rx_log) = 3
  /\ rx_log[1].framing = "bad_crc" /\ rx_log[1].c # MAVLINK_STX
  /\ rx_log[2].framing = "ok"
  /\ rx_log[3].framing = "bad_crc" /\ rx_log[3].c = MAVLINK_STX
  /\ m_status.parse_state = "GOT_STX" /\ m_buffer.len = 0

\* C26: the mutex is not held by the I/O thread at the moment it issues
\* a write on the device (async_write_some), whether in a posted
\* do_write(true) or in the do_write(false) a completion handler chains.
C26_LockScope ==
  [][Len(writes') > Len(writes) => mutex # "io"]_vars

\* C27: when Load has not bound the UDP socket (an address that does not
\* parse, socket() or bind() failing), no later tick or callback makes a
\* call on the UDP socket.
C27_UdpFailureInert ==
  (loaded /\ fd # "bound") => udp_log = <<>>

\* C28: after Load, hil_mode_ is the value of the hil_mode element, and
\* hil_state_level_ the value of the hil_state_level element when there
\* is one, each whatever the other element.
C28_IndependentOptions ==
  loaded =>
    /\ hil_mode_ = sdf.hil_mode
    /\ sdf.hil_state_level # "absent"
         => hil_state_level_ = (sdf.hil_state_level = "true")

\* C29: tx_in_progress is true exactly when a write is outstanding on the
\* serial device, from construction on.
C29_InFlightFlag ==
  tx_in_progress <=> (writes # <<>>)

\* C30: every queued frame has its cursor below its length; only the head
\* has a cursor that is not 0; and the frame an outstanding write refers
\* to is the head of tx_q.
C30_CursorInvariant ==
  /\ \A i \in 1..Len(tx_q) : 0 <= tx_q[i].pos /\ tx_q[i].pos < tx_q[i].len
  /\ \A i \in 2..Len(tx_q) : tx_q[i].pos = 0
  /\ \A k \in 1..Len(writes) : RefIndex(tx_q, writes[k].seq) = 1

\* Three frames queued, the head partly written and its next write
\* outstanding.
C30_Witness ==
  /\ Len(tx_q) = 3
  /\ Head(tx_q).pos > 0
  /\ writes = <<WriteOf(Head(tx_q))>>
  /\ wire # <<>>

\* C31: no motor command is published before the first actuator-control
\* frame has been decoded; a command a tick publishes is all zeros when
\* more than 0.2 s of simulation time have passed since the last
\* actuator-control frame, and is input_reference_ otherwise.
C31_TimeoutFailsafe ==
  /\ [](~received_first_referenc_ => motor_cmd = <<>>)
  /\ [][motor_cmd' # motor_cmd =>
          motor_cmd' = IF sim_time - last_actuator_time_' > 200
                       THEN ZeroArray ELSE input_reference_']_vars

\* C32: once loaded, input_reference_ has exactly n_out_max channels; and
\* a step in which no actuator-control frame is handled (a frame with
\* another message id handled, a tick, a send) leaves input_reference_,
\* last_actuator_time_ and received_first_referenc_ as they were.
C32_DecodeFrameCondition ==
  /\ [](loaded => DOMAIN input_reference_ = Channels)
  /\ [][(loaded /\ ControlsHandled' = ControlsHandled) =>
          UNCHANGED <<input_reference_, last_actuator_time_,
                      received_first_referenc_>>]_vars

\* A reference was set, then a heartbeat was handled and a tick has
\* published: the reference is still there.
C32_Witness ==
  /\ Len(handled) >= 2
  /\ handled[Len(handled)].msg = Heartbeat
  /\ handled[Len(handled) - 1].msg
       = RawControls(MAV_MODE_FLAG_SAFETY_ARMED, 100)
  /\ received_first_referenc_
  /\ input_reference_[0] = 206
  /\ motor_cmd # <<>>

\* Whether a callback's log entry e shows a frame of message id id sent.
Sent(e, id) == \E k \in 1..Len(e.sent) : e.sent[k] = id

\* C33: with hil_mode_ on, a callback sends its sensor-level frame
\* (HIL_SENSOR from an IMU callback for which an emission is due, HIL_GPS
\* from a GPS callback) exactly when hil_state_level_ is off and the
\* ground-truth state frame exactly when hil_state_level_ is on, and never
\* both; with hil_mode_ off, it sends both kinds.
C33_HilLevelSelection ==
  /\ \A i \in 1..Len(imu_log) :
       LET e == imu_log[i]
           sensor == Sent(e, MAVLINK_MSG_ID_HIL_SENSOR)
           state == Sent(e, MAVLINK_MSG_ID_HIL_STATE_QUATERNION)
       IN /\ hil_mode_ => ~(sensor /\ state)
          /\ e.dt >= e.interval =>
               IF hil_mode_
               THEN (sensor <=> ~hil_state_level_)
                      /\ (state <=> hil_state_level_)
               ELSE sensor /\ state
  /\ \A i \in 1..Len(gps_log) :
       Sent(gps_log[i], MAVLINK_MSG_ID_HIL_GPS)
         <=> (~hil_mode_ \/ ~hil_state_level_)

====
